---- MODULE Spec2Model ----
(***************************************************************************)
(* Conway's Game of Life (src/src/main.rs): the Board type with get, set,  *)
(* next, blit and Display::fmt, the ACORN seed and the driver loop of main.*)
(*                                                                         *)
(* Coordinates are i32 values kept at their full width.  A usize is kept   *)
(* as four 16-bit limbs, most significant first, so that the cast          *)
(* `v as usize` (sign extension to 64 bits) is computed, not assumed.      *)
(***************************************************************************)
EXTENDS Integers, Sequences, FiniteSets, TLC

VARIABLES
    board,          \* the board operated on (self / main's `board`)
    prev,           \* the board as it was before the last operation
    other,          \* the source board handed to blit
    call,           \* the last operation and its arguments
    ret,            \* what the last operation returned
    out,            \* the text last written (fmt's output / one println!)
    panicked,       \* the thread has panicked (process aborted)
    overflowChecks, \* build profile: TRUE = overflow checks on (debug)
    pc,             \* position of the running program
    origin,         \* the board the run started from
    prints,         \* boards printed by main so far
    reads,          \* read_line calls that returned so far
    lines,          \* lines actually delivered by stdin so far
    gens,           \* generations computed by main so far
    lastRead        \* outcome of the last read_line call

vars == <<board, prev, other, call, ret, out, panicked, overflowChecks,
          pc, origin, prints, reads, lines, gens, lastRead>>

---------------------------------------------------------------------------
(* Machine integers *)

I32Max == 2147483647
I32Min == (-I32Max) - 1

LimbBase == 65536
LimbTop == LimbBase - 1
HalfLimb == LimbBase \div 2

\* A usize <<l1, l2, l3, l4>> stands for ((l1*B + l2)*B + l3)*B + l4, with
\* B = LimbBase and every limb in 0..LimbTop.

\* The usize of a natural number below 2^31 (an array length or index).
UsizeOf(n) == <<0, 0, n \div LimbBase, n % LimbBase>>

\* The natural number of a usize whose two upper limbs are zero and whose
\* third limb is below 2^15.
NatOf(u) == u[3] * LimbBase + u[4]

\* a < b on usize (limb by limb, most significant first)
UsizeLt(a, b) ==
    \/ a[1] < b[1]
    \/ a[1] = b[1] /\ a[2] < b[2]
    \/ a[1] = b[1] /\ a[2] = b[2] /\ a[3] < b[3]
    \/ a[1] = b[1] /\ a[2] = b[2] /\ a[3] = b[3] /\ a[4] < b[4]

\* Mutant: the cast takes the magnitude of a negative coordinate.
AsUsizeAbs(v) ==
    IF v >= 0 THEN UsizeOf(v)
    ELSE IF v = I32Min THEN <<0, 0, HalfLimb, 0>> ELSE UsizeOf(-v)

\* `v as usize` for v: i32 -- sign extension to the 64-bit usize.
AsUsize(v) ==
    IF v >= 0
    THEN <<0, 0, v \div LimbBase, v % LimbBase>>
    ELSE LET low == v - I32Min   \* v + 2^31, in 0..2^31-1
         IN  <<LimbTop, LimbTop, HalfLimb + (low \div LimbBase), low % LimbBase>>

\* `u as i32` for u: usize -- the low 32 bits, read as two's complement.
AsI32(u) ==
    IF u[3] < HalfLimb
    THEN u[3] * LimbBase + u[4]
    ELSE ((u[3] - HalfLimb) * LimbBase + u[4]) + I32Min

\* a + b on i32 leaves the i32 range
AddOverflows(a, b) ==
    \/ b > 0 /\ a > I32Max - b
    \/ b < 0 /\ a < I32Min - b

\* a + b on i32 with two's-complement wrap-around (overflow checks off)
WrappingAdd(a, b) ==
    IF b > 0 /\ a > I32Max - b THEN (a + I32Min) + (b + I32Min)
    ELSE IF b < 0 /\ a < I32Min - b THEN (a - I32Min) + (b - I32Min)
    ELSE a + b

---------------------------------------------------------------------------
(* Option<T> *)

None == <<>>
Some(v) == <<v>>
Unit == "()"
UnwrapOr(o, d) == IF o = None THEN d ELSE o[1]

---------------------------------------------------------------------------
(* Board<WIDTH, HEIGHT>([[bool; WIDTH]; HEIGHT]) *)

\* Board::new: every cell dead.  cells[y][x], row y first.
New(w, h) ==
    [WIDTH |-> w, HEIGHT |-> h,
     cells |-> [y \in 0..(h - 1) |-> [x \in 0..(w - 1) |-> FALSE]]]

\* All boards of the given dimensions
Boards(w, h) ==
    {[WIDTH |-> w, HEIGHT |-> h, cells |-> c] :
        c \in [0..(h - 1) -> [0..(w - 1) -> BOOLEAN]]}

\* [T; N]::get(idx) / get_mut(idx): Some(place) iff idx < N
InSlice(len, idx) == UsizeLt(idx, UsizeOf(len))

\* Board::get
get(self, x, y) ==
    LET row == AsUsize(y)
        col == AsUsize(x)
    IN  IF ~InSlice(self.HEIGHT, row) THEN None
        ELSE IF ~InSlice(self.WIDTH, col) THEN None
        ELSE Some(self.cells[NatOf(row)][NatOf(col)])

\* Mutant: an out-of-range write is clamped onto the nearest cell.
setClamped(self, x, y, val) ==
    LET cx == IF x < 0 THEN 0 ELSE IF x >= self.WIDTH THEN self.WIDTH - 1 ELSE x
        cy == IF y < 0 THEN 0 ELSE IF y >= self.HEIGHT THEN self.HEIGHT - 1 ELSE y
    IN  [board |-> [self EXCEPT !.cells[cy][cx] = val], ret |-> Some(Unit)]

\* Board::set: the board afterwards and the value returned
set(self, x, y, val) ==
    LET row == AsUsize(y)
        col == AsUsize(x)
    IN  IF ~InSlice(self.HEIGHT, row) THEN [board |-> self, ret |-> None]
        ELSE IF ~InSlice(self.WIDTH, col) THEN [board |-> self, ret |-> None]
        ELSE [board |-> [self EXCEPT !.cells[NatOf(row)][NatOf(col)] = val],
              ret |-> Some(Unit)]

---------------------------------------------------------------------------
(* The generation step *)

OFFSETS == << <<-1, -1>>, <<0, -1>>, <<1, -1>>, <<1, 0>>,
              <<1, 1>>, <<0, 1>>, <<-1, 1>>, <<-1, 0>> >>

\* Option::unwrap: a None has no first element, so evaluation fails there
Unwrap(o) == o[1]

\* `v as u8` for v: bool
BoolAsU8(v) == IF v THEN 1 ELSE 0

\* OFFSETS.iter().map(..get(..).unwrap_or(false)).fold(0u8, |acc, v| acc + v as u8)
\* for the cell with array indices (x, y), offsets i..8 still to visit.
RECURSIVE FoldNeighbors(_, _, _, _, _)
FoldNeighbors(self, x, y, i, acc) ==
    IF i > Len(OFFSETS) THEN acc
    ELSE LET nx == WrappingAdd(AsI32(UsizeOf(x)), OFFSETS[i][1])
             ny == WrappingAdd(AsI32(UsizeOf(y)), OFFSETS[i][2])
             v  == UnwrapOr(get(self, nx, ny), FALSE)
         IN  FoldNeighbors(self, x, y, i + 1, (acc + BoolAsU8(v)) % 256)

\* Mutant: the (true, 2) arm is missing, an alive cell needs 3 neighbours.
RuleBirthOnly(alive, neighbors) == neighbors = 3

\* The match of Board::next: (true, 2) | (_, 3) => true, _ => false
Rule(alive, neighbors) ==
    \/ alive /\ neighbors = 2
    \/ neighbors = 3

\* Mutant: survival on 2 neighbours is granted to dead cells too.
nextAnyTwo(self) ==
    [self EXCEPT !.cells =
        [y \in 0..(self.HEIGHT - 1) |-> [x \in 0..(self.WIDTH - 1) |->
            FoldNeighbors(self, x, y, 1, 0) \in {2, 3}]]]

\* Board::next: every cell of the new board from the old board `self`
next(self) ==
    [self EXCEPT !.cells =
        [y \in 0..(self.HEIGHT - 1) |-> [x \in 0..(self.WIDTH - 1) |->
            Rule(Unwrap(get(self, AsI32(UsizeOf(x)), AsI32(UsizeOf(y)))),
                 FoldNeighbors(self, x, y, 1, 0))]]]

---------------------------------------------------------------------------
(* Board::blit *)

\* One blit from source cell number k on (row-major: the loops of blit).
\* x + (x_offset as i32) is evaluated before y + (y_offset as i32); with
\* overflow checks on, an overflowing addition panics and the loop stops
\* there, the writes made so far staying in the board.
RECURSIVE blitFrom(_, _, _, _, _, _)
blitFrom(self, x, y, src, checks, k) ==
    IF k >= src.WIDTH * src.HEIGHT THEN [board |-> self, panic |-> FALSE]
    ELSE LET y_offset == k \div src.WIDTH
             x_offset == k % src.WIDTH
             cell == src.cells[y_offset][x_offset]
             dx == AsI32(UsizeOf(x_offset))
             dy == AsI32(UsizeOf(y_offset))
             wrote == set(self, WrappingAdd(x, dx), WrappingAdd(y, dy), cell)
         IN  IF checks /\ (AddOverflows(x, dx) \/ AddOverflows(y, dy))
             THEN [board |-> self, panic |-> TRUE]
             \* the Option that set returns is dropped either way
             ELSE IF wrote.ret = None
                  THEN blitFrom(wrote.board, x, y, src, checks, k + 1)
                  ELSE blitFrom(wrote.board, x, y, src, checks, k + 1)

\* Mutant: only the alive cells of the source are written.
blitAliveOnly(self, x, y, src, checks) ==
    LET RECURSIVE go(_, _)
        go(b, k) ==
            IF k >= src.WIDTH * src.HEIGHT THEN b
            ELSE LET yo == k \div src.WIDTH
                     xo == k % src.WIDTH
                 IN  go(IF src.cells[yo][xo]
                        THEN set(b, WrappingAdd(x, xo), WrappingAdd(y, yo), TRUE).board
                        ELSE b, k + 1)
    IN  [board |-> go(self, 0), panic |-> FALSE]

\* Board::blit: the destination afterwards, and whether the call panicked
blit(self, x, y, src, checks) == blitFrom(self, x, y, src, checks, 0)

---------------------------------------------------------------------------
(* impl Display for Board *)

\* The characters written for row y: one per cell, then the newline
FmtRow(self, y) ==
    [i \in 1..(self.WIDTH + 1) |->
        IF i = self.WIDTH + 1 THEN "\n"
        ELSE IF self.cells[y][i - 1] THEN "X" ELSE "_"]

RECURSIVE fmtFrom(_, _)
fmtFrom(self, y) ==
    IF y >= self.HEIGHT THEN <<>>
    ELSE FmtRow(self, y) \o fmtFrom(self, y + 1)

\* Mutant: the cells are written column by column.
fmtTransposed(self) ==
    LET t == [WIDTH |-> self.HEIGHT, HEIGHT |-> self.WIDTH,
              cells |-> [y \in 0..(self.WIDTH - 1) |->
                            [x \in 0..(self.HEIGHT - 1) |-> self.cells[x][y]]]]
    IN  fmtFrom(t, 0)

\* Display::fmt: the characters written, in order
fmt(self) == fmtFrom(self, 0)

\* println!("{}", board): the Display text and one more newline
println(self) == fmt(self) \o <<"\n">>

---------------------------------------------------------------------------
(* The seed and main's board *)

ACORN ==
    [WIDTH |-> 7, HEIGHT |-> 3,
     cells |-> [y \in 0..2 |-> [x \in 0..6 |->
        <<x, y>> \in {<<1, 0>>, <<3, 1>>,
                      <<0, 2>>, <<1, 2>>, <<4, 2>>, <<5, 2>>, <<6, 2>>}]]]

MainWidth == 40
MainHeight == 40
AcornX == 17
AcornY == 19

---------------------------------------------------------------------------
(* Bounds of the checked instances *)

MaxW == 3          \* width of the boards read and written cell by cell
MaxH == 2          \* height of those boards
SrcW == 2          \* width of the boards stamped by blit
SrcH == 2          \* height of those boards
NextW == 3         \* width of the boards whose next generation is taken
MaxGens == 2       \* generations followed from one board
MaxLoops == 4      \* iterations of main's loop followed

\* i32 coordinates tried against a dimension d: both ends of the type, both
\* sides of a limb boundary, both sides of each edge of the board.
Coords(d) == {I32Min, I32Min + 1, -LimbBase, -2, -1} \cup (0..d)
             \cup {LimbBase, I32Max - 1, I32Max}

\* The boards that tell every cell from every other: all dead, all alive,
\* exactly one cell alive, exactly one cell dead.
ProbeBoards(w, h) ==
    {[WIDTH |-> w, HEIGHT |-> h,
      cells |-> [y \in 0..(h - 1) |-> [x \in 0..(w - 1) |->
                    IF <<x, y>> = c THEN v ELSE ~v]]] :
        c \in ((0..(w - 1)) \X (0..(h - 1))) \cup {<<-1, -1>>}, v \in BOOLEAN}

NoCall == [name |-> "none", x |-> 0, y |-> 0, val |-> FALSE]
NoRead == [kind |-> "none", text |-> ""]

\* Nothing has been called, printed or read yet.
Fresh ==
    /\ prev = board
    /\ origin = board
    /\ call = NoCall
    /\ ret = None
    /\ out = <<>>
    /\ panicked = FALSE
    /\ prints = 0
    /\ reads = 0
    /\ lines = 0
    /\ gens = 0
    /\ lastRead = NoRead

---------------------------------------------------------------------------
(* Single calls of get and set *)

AccessInit ==
    /\ board \in ProbeBoards(MaxW, MaxH)
    /\ other = board
    /\ overflowChecks = FALSE     \* get and set add nothing
    /\ pc = "call"
    /\ Fresh

Get(x, y) ==
    /\ pc = "call"
    /\ call' = [name |-> "get", x |-> x, y |-> y, val |-> FALSE]
    /\ ret' = get(board, x, y)
    /\ prev' = board
    /\ pc' = "returned"
    /\ UNCHANGED <<board, other, out, panicked, overflowChecks, origin,
                   prints, reads, lines, gens, lastRead>>

Set(x, y, val) ==
    /\ pc = "call"
    /\ call' = [name |-> "set", x |-> x, y |-> y, val |-> val]
    /\ board' = set(board, x, y, val).board
    /\ ret' = set(board, x, y, val).ret
    /\ prev' = board
    /\ pc' = "returned"
    /\ UNCHANGED <<other, out, panicked, overflowChecks, origin,
                   prints, reads, lines, gens, lastRead>>

AccessNext ==
    \/ \E x \in Coords(MaxW), y \in Coords(MaxH) : Get(x, y)
    \/ \E x \in Coords(MaxW), y \in Coords(MaxH), val \in BOOLEAN : Set(x, y, val)

SpecAccess == AccessInit /\ [][AccessNext]_vars

---------------------------------------------------------------------------
(* Single calls of blit *)

BlitInit ==
    /\ board \in ProbeBoards(MaxW, MaxH)
    /\ other \in ProbeBoards(SrcW, SrcH)
    /\ overflowChecks \in BOOLEAN
    /\ pc = "call"
    /\ Fresh

Blit(x, y) ==
    /\ pc = "call"
    /\ call' = [name |-> "blit", x |-> x, y |-> y, val |-> FALSE]
    /\ board' = blit(board, x, y, other, overflowChecks).board
    /\ panicked' = blit(board, x, y, other, overflowChecks).panic
    /\ ret' = None
    /\ prev' = board
    /\ pc' = IF panicked' THEN "aborted" ELSE "returned"
    /\ UNCHANGED <<other, out, overflowChecks, origin,
                   prints, reads, lines, gens, lastRead>>

BlitNext == \E x \in Coords(MaxW), y \in Coords(MaxH) : Blit(x, y)

SpecBlit == BlitInit /\ [][BlitNext]_vars

---------------------------------------------------------------------------
(* Generations of a board *)

\* The horizontal blinker on the 10 x 10 board
BlinkerH ==
    [WIDTH |-> 10, HEIGHT |-> 10,
     cells |-> [y \in 0..9 |-> [x \in 0..9 |->
                   <<x, y>> \in {<<4, 5>>, <<5, 5>>, <<6, 5>>}]]]

GenInit ==
    /\ board \in Boards(NextW, 3) \cup Boards(2, NextW + 1)
                 \cup {BlinkerH}
    /\ other = board
    /\ overflowChecks = FALSE     \* an index plus an offset stays in i32
    /\ pc = "call"
    /\ Fresh

Next ==
    /\ pc = "call"
    /\ gens < MaxGens
    /\ call' = [name |-> "next", x |-> 0, y |-> 0, val |-> FALSE]
    /\ board' = next(board)
    /\ prev' = board
    /\ gens' = gens + 1
    /\ UNCHANGED <<other, ret, out, panicked, overflowChecks, pc, origin,
                   prints, reads, lines, lastRead>>

SpecGen == GenInit /\ [][Next]_vars

---------------------------------------------------------------------------
(* The driver: main *)

\* Contents a line typed by the user may have (without its newline)
LineTexts == {"", "q"}

\* Mutant: the origin is handed to blit as (19, 17).
MainBoardSwapped(checks) ==
    blit(New(MainWidth, MainHeight), AcornY, AcornX, ACORN, checks)

\* let mut board: Board<40, 40> = Board::new(); board.blit((17, 19), &ACORN);
MainBoard(checks) == blit(New(MainWidth, MainHeight), AcornX, AcornY, ACORN, checks)

MainInit ==
    /\ overflowChecks \in BOOLEAN
    /\ board = MainBoard(overflowChecks).board
    /\ other = ACORN
    /\ pc = "print"
    /\ Fresh

\* println!("{}", board);  (writing to stdout is taken to succeed)
Println ==
    /\ pc = "print"
    /\ prints < MaxLoops
    /\ out' = println(board)
    /\ prints' = prints + 1
    /\ pc' = "read"
    /\ UNCHANGED <<board, prev, other, call, ret, panicked, overflowChecks,
                   origin, reads, lines, gens, lastRead>>

\* stdin().read_line(..) returns Ok(n), n > 0: a line arrived; unwrap passes
ReadLine(text) ==
    /\ pc = "read"
    /\ lastRead' = [kind |-> "line", text |-> text]
    /\ reads' = reads + 1
    /\ lines' = lines + 1
    /\ pc' = "next"
    /\ UNCHANGED <<board, prev, other, call, ret, out, panicked,
                   overflowChecks, origin, prints, gens>>

\* stdin().read_line(..) returns Ok(0): end of input; unwrap passes
ReadEof ==
    /\ pc = "read"
    /\ lastRead' = [kind |-> "eof", text |-> ""]
    /\ reads' = reads + 1
    /\ pc' = "next"
    /\ UNCHANGED <<board, prev, other, call, ret, out, panicked,
                   overflowChecks, origin, prints, lines, gens>>

\* stdin().read_line(..) returns Err(_): unwrap panics
ReadErr ==
    /\ pc = "read"
    /\ lastRead' = [kind |-> "err", text |-> ""]
    /\ reads' = reads + 1
    /\ panicked' = TRUE
    /\ pc' = "aborted"
    /\ UNCHANGED <<board, prev, other, call, ret, out, overflowChecks,
                   origin, prints, lines, gens>>

\* board = board.next();
NextGen ==
    /\ pc = "next"
    /\ board' = next(board)
    /\ prev' = board
    /\ gens' = gens + 1
    /\ pc' = "print"
    /\ UNCHANGED <<other, call, ret, out, panicked, overflowChecks, origin,
                   prints, reads, lines, lastRead>>

MainNext ==
    \/ Println
    \/ \E text \in LineTexts : ReadLine(text)
    \/ ReadEof
    \/ ReadErr
    \/ NextGen

SpecMain == MainInit /\ [][MainNext]_vars

---------------------------------------------------------------------------
(* Rendering: to_string of any board, and main's output *)

FmtInit ==
    /\ board \in Boards(MaxW, MaxH) \cup Boards(MaxH, MaxW)
    /\ other = board
    /\ overflowChecks = FALSE     \* fmt adds nothing
    /\ pc = "call"
    /\ Fresh

Fmt ==
    /\ pc = "call"
    /\ call' = [name |-> "fmt", x |-> 0, y |-> 0, val |-> FALSE]
    /\ out' = fmt(board)
    /\ prev' = board
    /\ pc' = "returned"
    /\ UNCHANGED <<board, other, ret, panicked, overflowChecks, origin,
                   prints, reads, lines, gens, lastRead>>

SpecFmt == (FmtInit \/ MainInit) /\ [][Fmt \/ MainNext]_vars

---------------------------------------------------------------------------
(* The properties checked.  What a formula expects is stated over the     *)
(* mathematical integers, without the casts and limbs of the model.        *)

\* 0 <= x < WIDTH and 0 <= y < HEIGHT
InRange(b, x, y) == 0 <= x /\ x < b.WIDTH /\ 0 <= y /\ y < b.HEIGHT

SameShape(a, b) == a.WIDTH = b.WIDTH /\ a.HEIGHT = b.HEIGHT

Xs(b) == 0..(b.WIDTH - 1)
Ys(b) == 0..(b.HEIGHT - 1)

\* The alive cells among the 8 neighbours of (x, y) that lie on the board
LiveNeighbours(b, x, y) ==
    Cardinality({p \in ((x - 1)..(x + 1)) \X ((y - 1)..(y + 1)) :
                    /\ p # <<x, y>>
                    /\ InRange(b, p[1], p[2])
                    /\ b.cells[p[2]][p[1]]})

\* C1: after next, every cell of the new board is alive iff (it was alive
\* in the old board and exactly 2 of its 8 neighbours were alive there) or
\* exactly 3 of them were; neighbours off the board count as dead and all
\* states are those of the old board.
C1_NextRule ==
    call.name = "next" =>
        /\ SameShape(board, prev)
        /\ \A x \in Xs(prev), y \in Ys(prev) :
              board.cells[y][x] <=>
                  \/ prev.cells[y][x] /\ LiveNeighbours(prev, x, y) = 2
                  \/ LiveNeighbours(prev, x, y) = 3

\* A generation with a birth, a death by overcrowding, a survivor on the
\* edge, and a dead cell with two alive neighbours that stays dead.
C1_Witness ==
    /\ call.name = "next"
    /\ \E x \in Xs(prev), y \in Ys(prev) :
          ~prev.cells[y][x] /\ LiveNeighbours(prev, x, y) = 3 /\ board.cells[y][x]
    /\ \E x \in Xs(prev), y \in Ys(prev) :
          prev.cells[y][x] /\ LiveNeighbours(prev, x, y) >= 4 /\ ~board.cells[y][x]
    /\ \E y \in Ys(prev) :
          prev.cells[y][0] /\ LiveNeighbours(prev, 0, y) = 2 /\ board.cells[y][0]
    /\ \E x \in Xs(prev), y \in Ys(prev) :
          ~prev.cells[y][x] /\ LiveNeighbours(prev, x, y) = 2 /\ ~board.cells[y][x]

\* C2: get never fails; it returns the stored state for 0 <= x < W and
\* 0 <= y < H and None for every other pair of i32 coordinates, a negative
\* coordinate included; the board is left as it was.
C2_GetTotal ==
    call.name = "get" =>
        /\ ~panicked
        /\ board = prev
        /\ InRange(prev, call.x, call.y) => ret = Some(prev.cells[call.y][call.x])
        /\ ~InRange(prev, call.x, call.y) => ret = None

\* get at a negative column whose magnitude is the column of an alive cell
C2_Witness ==
    /\ call.name = "get"
    /\ call.x = -1
    /\ call.y = 0
    /\ prev.cells[0][1]
    /\ ret = None

\* C3: set in range returns Some(()), get then returns the value written
\* and every other cell is as before; set out of range returns None and
\* leaves the whole board as it was.
C3_SetFrame ==
    call.name = "set" =>
        /\ ~panicked
        /\ SameShape(board, prev)
        /\ IF InRange(prev, call.x, call.y)
           THEN /\ ret = Some(Unit)
                /\ get(board, call.x, call.y) = Some(call.val)
                /\ board.cells[call.y][call.x] = call.val
                /\ \A x \in Xs(prev), y \in Ys(prev) :
                      <<x, y>> # <<call.x, call.y>> =>
                          board.cells[y][x] = prev.cells[y][x]
           ELSE /\ ret = None
                /\ board = prev

\* a write one column past the right edge, of a value the last column
\* does not hold
C3_Witness ==
    /\ call.name = "set"
    /\ call.x = prev.WIDTH
    /\ call.y = 0
    /\ prev.cells[0][prev.WIDTH - 1] # call.val
    /\ ret = None

\* Destination cell (i, j) is the image of a source cell under the origin
\* of the last blit, i.e. 0 <= i - x < src.WIDTH and 0 <= j - y < src.HEIGHT
\* (written so that no difference is taken outside the i32 range).
IsImage(i, j) ==
    /\ call.x <= i /\ call.x > i - other.WIDTH
    /\ call.y <= j /\ call.y > j - other.HEIGHT

\* What a completed blit leaves: each in-range image cell holds the source
\* cell's state, every other cell of the destination is as before.
BlitFrame ==
    /\ SameShape(board, prev)
    /\ \A i \in Xs(prev), j \in Ys(prev) :
          board.cells[j][i] = IF IsImage(i, j)
                              THEN other.cells[j - call.y][i - call.x]
                              ELSE prev.cells[j][i]

\* C4: after blit returns, every in-range image of a source cell holds the
\* source's state (a dead source cell overwrites an alive destination
\* cell), every other destination cell is unchanged, and source cells
\* whose image is out of range are dropped.
C4_BlitFrame ==
    (call.name = "blit" /\ ~panicked) => BlitFrame

\* a blit clipped at the edge in which a dead source cell has overwritten
\* an alive destination cell
C4_Witness ==
    /\ call.name = "blit"
    /\ ~panicked
    /\ \E i \in Xs(prev), j \in Ys(prev) :
          IsImage(i, j) /\ prev.cells[j][i] /\ ~board.cells[j][i]
    /\ \E sx \in Xs(other), sy \in Ys(other) :
          ~InRange(prev, call.x + sx, call.y + sy)
    /\ call.x \in Xs(prev)
    /\ call.y \in Ys(prev)

\* C10: blit completes for every origin in the i32 range, also when
\* x + sx or y + sy leaves the i32 range: it never aborts, and such a
\* write never lands on a cell of the destination.
C10_BlitNeverAborts ==
    call.name = "blit" => (~panicked /\ BlitFrame)

\* The vertical blinker on the 10 x 10 board
BlinkerV ==
    [WIDTH |-> 10, HEIGHT |-> 10,
     cells |-> [y \in 0..9 |-> [x \in 0..9 |->
                   <<x, y>> \in {<<5, 4>>, <<5, 5>>, <<5, 6>>}]]]

\* C8: from the horizontal blinker (4,5), (5,5), (6,5) on the empty
\* 10 x 10 board, one generation gives exactly (5,4), (5,5), (5,6) and the
\* second gives the horizontal blinker back.
C8_Blinker ==
    origin = BlinkerH =>
        /\ gens = 0 => board = BlinkerH
        /\ gens = 1 => board = BlinkerV
        /\ gens = 2 => board = BlinkerH

\* the blinker after its second generation
C8_Witness ==
    /\ origin = BlinkerH
    /\ gens = 2
    /\ prev = BlinkerV
    /\ board = BlinkerH

\* The seven cells of the Acorn with its top-left corner at (17, 19)
AcornCells == {<<18, 19>>, <<20, 20>>, <<17, 21>>, <<18, 21>>,
               <<21, 21>>, <<22, 21>>, <<23, 21>>}

\* The text of the 40 x 40 board with exactly AcornCells alive, and the
\* newline println! adds
AcornText ==
    [i \in 1..(MainHeight * (MainWidth + 1) + 1) |->
        IF i = MainHeight * (MainWidth + 1) + 1 THEN "\n"
        ELSE IF (i - 1) % (MainWidth + 1) = MainWidth THEN "\n"
        ELSE IF <<(i - 1) % (MainWidth + 1), (i - 1) \div (MainWidth + 1)>>
                    \in AcornCells
             THEN "X" ELSE "_"]

\* C7: the first board main prints is the 40 x 40 board whose alive cells
\* are exactly the seven Acorn cells at (17, 19); before the first
\* generation the board holds exactly these cells.
C7_FirstBoard ==
    /\ prints = 1 => out = AcornText
    /\ gens = 0 =>
          /\ board.WIDTH = MainWidth /\ board.HEIGHT = MainHeight
          /\ \A x \in Xs(board), y \in Ys(board) :
                board.cells[y][x] <=> <<x, y>> \in AcornCells

\* main has printed its first board and waits for a line
C7_Witness ==
    /\ prints = 1
    /\ pc = "read"
    /\ gens = 0
    /\ Len(out) > 0

\* t is the rendering of b: HEIGHT lines, top row first, each of WIDTH
\* characters, 'X' for alive and '_' for dead, and a newline; nothing else.
IsRender(t, b) ==
    /\ Len(t) = b.HEIGHT * (b.WIDTH + 1)
    /\ \A y \in Ys(b) :
          /\ \A x \in Xs(b) :
                t[y * (b.WIDTH + 1) + x + 1] = IF b.cells[y][x] THEN "X" ELSE "_"
          /\ t[y * (b.WIDTH + 1) + b.WIDTH + 1] = "\n"

\* The board main printed last
Printed == IF pc = "print" THEN prev ELSE board

\* C9: the text fmt writes for a W x H board is H lines in row order, each
\* W characters 'X' / '_' by cell state and one newline, nothing else; what
\* main prints for a board is that block and one more newline.
C9_Render ==
    /\ call.name = "fmt" => IsRender(out, board)
    /\ prints >= 1 =>
          /\ Len(out) = Printed.HEIGHT * (Printed.WIDTH + 1) + 1
          /\ IsRender(SubSeq(out, 1, Len(out) - 1), Printed)
          /\ out[Len(out)] = "\n"

\* fmt of a board that is not square and has cells of both states
C9_Witness ==
    /\ call.name = "fmt"
    /\ board.WIDTH > board.HEIGHT
    /\ board.cells[0][board.WIDTH - 1]
    /\ ~board.cells[board.HEIGHT - 1][0]
    /\ Len(out) > 0

\* C5: when read_line meets end of input or an I/O error, the process
\* aborts at that read.
C5_AbortsAtEndOfInput ==
    lastRead.kind \in {"eof", "err"} => (panicked /\ pc = "aborted")

\* The part of C5 the code keeps: an I/O error aborts at the read, and
\* nothing is printed or computed once aborted.
ErrAborts ==
    /\ lastRead.kind = "err" => (panicked /\ pc = "aborted")
    /\ pc = "aborted" => ~ENABLED MainNext

\* C6: outputs and reads alternate, an output first; the board is replaced
\* by its next generation exactly once after each line read and never
\* otherwise, so that the generations computed are as many as the lines
\* read once the line just read has been answered.
C6_OneGenerationPerLine ==
    /\ pc = "read" => prints = reads + 1
    /\ pc # "read" => prints = reads
    /\ gens <= lines
    /\ lines <= gens + 1
    /\ pc \in {"print", "read"} => gens = lines

\* The parts of C6 the code keeps: alternation, one generation per read
\* that returned Ok, and the board printed being the generation reached.
RECURSIVE Generation(_)
Generation(k) == IF k = 0 THEN MainBoard(FALSE).board ELSE next(Generation(k - 1))

Alternation ==
    /\ pc = "read" => prints = reads + 1
    /\ pc # "read" => prints = reads
    /\ pc \in {"print", "read"} => gens = reads
    /\ pc = "next" => gens + 1 = reads
    /\ pc = "aborted" => gens + 1 = reads /\ lastRead.kind = "err"

KthBoard ==
    /\ board = Generation(gens)
    /\ pc \in {"read", "next", "aborted"} => out = println(board)

====
